---------------------------- MODULE Spec2Model ----------------------------
(***************************************************************************)
(* A model of the WSIA pre-/post-processing pipeline (zm5259/WSIA):        *)
(*   lib/write_par_file.py   format_value, modify_par_file                 *)
(*   lib/tomography_model.py create_tomography_model                       *)
(*   lib/forward.py          run_command, main and its stages              *)
(*   lib/write_source_station.py  write_station                            *)
(*   lib/plot_wave.py        plot_seismic_waveform's trace files           *)
(*   lib/zoom.py             calc_dims, scale_model, zoom_stl              *)
(*   Workflow.py             the driver, alone and run twice at once       *)
(*   lib/generate_mesh.py    find_zoom_stl_file, over successive runs      *)
(* Text is modelled as sequences of one-character strings.                 *)
(***************************************************************************)
EXTENDS Integers, Sequences, FiniteSets, TLC

VARIABLES
    \* ---- DATA/Par_file and modify_par_file -----------------------------
    parFile,        \* content of ./DATA/Par_file
    modifications,  \* the dict passed to modify_par_file: key -> value
    readLines,      \* file.readlines() of the last call (the list before the loop)
    lines,          \* the list `lines` of the last call after the loop
    parPrev,        \* content of the file when the last call started
    parRuns,        \* number of calls of modify_par_file so far
    parRaised,      \* the last call ended with an exception
    parWrote,       \* the last call reached file.writelines(lines)
    parLog,         \* indices printed by "Error formatting line {i}"
    \* ---- one call of format_value -------------------------------------
    fmtIn,          \* the argument
    fmtOut,         \* the string returned
    fmtState,       \* "idle", "input", "done" or "raised"
    \* ---- one run of Workflow.py ---------------------------------------
    pc,             \* the statement of the driver to execute next
    started,        \* the statements executed so far, in order
    files,          \* the artifacts this run has written and that exist
    cmds,           \* the shell commands run so far, each with its exit code
    faultAt,        \* Len(started) when a statement failed (0: none failed)
    filesAtFault,   \* `files` at that moment
    NPROC,          \* forward.main's NPROC (0: not assigned)
    combineArgs,    \* forward.main's start, stop, step
    vtkLine,        \* combine_vtk's loop variable `line`
    \* ---- one call of create_tomography_model --------------------------
    tomoArgs,       \* its arguments
    tomoFile,       \* the lines of DATA/tomo_files/tomography_model.xyz
    tomoState,      \* "idle", "input", "done" or "raised"
    \* ---- write_station, the solver's traces, plot_seismic_waveform ------
    staArgs,        \* write_station's R and ntr
    staFile,        \* the lines of ./DATA/STATIONS
    staState,       \* "idle", "input", "done" or "raised"
    traces,         \* the names of the *.semd files under ./OUTPUT_FILES/
    plotIdx,        \* plot_seismic_waveform's loop variable i
    plotOpened,     \* the file names it has passed to np.loadtxt, in order
    plotState,      \* "idle", "wait", "loop", "single", "done" or "raised"
    \* ---- one call of zoom_stl ------------------------------------------
    zoomArgs,       \* the surface read from stl_file, and scale_factor
    zoomState,      \* "idle", "input", "done" or "raised"
    stlOut,         \* the vertices saved in the scaled surface file (<<>>: none)
    stlDetails,     \* what model/stl_details.txt holds (<<>>: not written)
    zoomRet,        \* the value returned (<<>>: none)
    \* ---- two runs of Workflow.py in one working directory --------------
    runPc,          \* for each run, the step it executes next
    shared,         \* for each file of the working directory, who wrote it last
                    \*   and whether it is absent, partly written or whole
    parRead,        \* for each run, what its modify_par_file read
    consumed,       \* for each run, the inputs its solver read (<<>>: not yet)
    \* ---- successive runs of Workflow.py, the files under model/ --------
    modelDir,       \* the scale factors s whose *_zoom<s>.stl is in model/
    meshRun,        \* the number of the run under way
    meshPc,         \* "idle", "zoom", "mesh", "tomo" or "end"
    wfScaleFactor,  \* Workflow.py's scale_factor in this run
    meshStlFile,    \* generate_mesh's stl_file, by its scale factor (<<>>: none)
    tomoBoxOf       \* the scale factor of the surface whose padded box sizes
                    \*   this run's volumetric model (<<>>: none yet)

parVars == <<parFile, modifications, readLines, lines, parPrev, parRuns,
             parRaised, parWrote, parLog>>
fmtVars == <<fmtIn, fmtOut, fmtState>>
pipeVars == <<pc, started, files, cmds, faultAt, filesAtFault, NPROC,
              combineArgs, vtkLine>>

tomoVars == <<tomoArgs, tomoFile, tomoState>>

staVars == <<staArgs, staFile, staState, traces, plotIdx, plotOpened, plotState>>

zoomVars == <<zoomArgs, zoomState, stlOut, stlDetails, zoomRet>>

concVars == <<runPc, shared, parRead, consumed>>

meshVars == <<modelDir, meshRun, meshPc, wfScaleFactor, meshStlFile, tomoBoxOf>>

vars == <<parVars, fmtVars, pipeVars, tomoVars, staVars, zoomVars, concVars,
          meshVars>>

\* what each component leaves alone
nonParVars  == <<fmtVars, pipeVars, tomoVars, staVars, zoomVars, concVars, meshVars>>
nonFmtVars  == <<parVars, pipeVars, tomoVars, staVars, zoomVars, concVars, meshVars>>
nonPipeVars == <<parVars, fmtVars, tomoVars, staVars, zoomVars, concVars, meshVars>>
nonTomoVars == <<parVars, fmtVars, pipeVars, staVars, zoomVars, concVars, meshVars>>
nonStaVars  == <<parVars, fmtVars, pipeVars, tomoVars, zoomVars, concVars, meshVars>>
nonZoomVars == <<parVars, fmtVars, pipeVars, tomoVars, staVars, concVars, meshVars>>
nonConcVars == <<parVars, fmtVars, pipeVars, tomoVars, staVars, zoomVars, meshVars>>
nonMeshVars == <<parVars, fmtVars, pipeVars, tomoVars, staVars, zoomVars, concVars>>

-----------------------------------------------------------------------------
(* Bounds of the model.                                                    *)

\* longest Par_file content enumerated
MaxFileLen == 5
\* number of successive calls of modify_par_file
MaxRuns == 2

-----------------------------------------------------------------------------
(* Text helpers.                                                           *)

NL == "\n"
SP == " "

\* what Python's \s matches among the characters of the model
IsSpace(c) == c \in {SP, NL}

RECURSIVE Concat(_)
Concat(ss) == IF ss = <<>> THEN <<>> ELSE Head(ss) \o Concat(Tail(ss))

Spaces(n) == [i \in 1..n |-> SP]

\* length of the longest prefix of s[from..] whose characters satisfy P
RECURSIVE RunLen(_, _, _)
RunLen(s, from, wantSpace) ==
    IF from > Len(s) \/ IsSpace(s[from]) # wantSpace THEN 0
    ELSE 1 + RunLen(s, from + 1, wantSpace)

\* number of characters from s[from] up to, not including, the next newline
RECURSIVE DotRun(_, _)
DotRun(s, from) ==
    IF from > Len(s) \/ s[from] = NL THEN 0 ELSE 1 + DotRun(s, from + 1)

DigitChars == <<"0", "1", "2", "3", "4", "5", "6", "7", "8", "9">>
Digit(d) == DigitChars[d + 1]

\* str(n) of a non-negative int
RECURSIVE NatToStr(_)
NatToStr(n) == IF n < 10 THEN <<Digit(n)>> ELSE NatToStr(n \div 10) \o <<Digit(n % 10)>>

\* str(n) of an int
IntToStr(n) == IF n < 0 THEN <<"-">> \o NatToStr(-n) ELSE NatToStr(n)


-----------------------------------------------------------------------------
(* Python values that can stand in the modifications dict.                 *)
(* A float is the double nearest to the decimal literal (-)d1.d2 x 10^e;   *)
(* `above` says on which side of that literal the double lies, which is    *)
(* what decides a rounding tie of the literal.  d1 = 0 is the float 0.0.   *)

\* decimal exponents of the floats enumerated: -MaxNegExp .. MaxPosExp
MaxNegExp == 12
MaxPosExp == 2
\* largest |n| of the small ints enumerated
MaxInt == 12

IntVal(n)   == [t |-> "int", i |-> n]
BoolVal(b)  == [t |-> "bool", b |-> b]
StrVal(s)   == [t |-> "str", s |-> s]
FloatVal(neg, d1, d2, e, above) ==
    [t |-> "float", neg |-> neg, d1 |-> d1, d2 |-> d2, e |-> e, above |-> above]
\* an object whose __str__ raises
BadVal      == [t |-> "bad"]

Floats ==
    {FloatVal(neg, d1, d2, e, above) :
        neg \in BOOLEAN, d1 \in 1..9, d2 \in 0..9,
        e \in (0 - MaxNegExp)..MaxPosExp, above \in BOOLEAN}
    \cup {FloatVal(FALSE, 0, 0, 0, FALSE)}

\* the decimal digit of d1.d2 x 10^e at position p (p = 0: units, p = -1: tenths)
DigitAt(r, p) == IF p = r.e THEN r.d1 ELSE IF p = r.e - 1 THEN r.d2 ELSE 0

\* the value rounded to 10 decimal places, as done by the format spec .10f;
\* again of the shape d1.d2 x 10^e (d1 = 0: it rounds to zero)
Round10(f) ==
    LET zero == [d1 |-> 0, d2 |-> 0, e |-> 0] IN
    IF f.d1 = 0 THEN zero
    ELSE IF f.e >= -9 THEN [d1 |-> f.d1, d2 |-> f.d2, e |-> f.e]
    ELSE IF f.e = -10 THEN
        LET up == f.d2 > 5 \/ (f.d2 = 5 /\ f.above) IN
        IF ~up THEN [d1 |-> f.d1, d2 |-> 0, e |-> -10]
        ELSE IF f.d1 < 9 THEN [d1 |-> f.d1 + 1, d2 |-> 0, e |-> -10]
        ELSE [d1 |-> 1, d2 |-> 0, e |-> -9]
    ELSE IF f.e = -11 THEN
        LET up == f.d1 > 5 \/ (f.d1 = 5 /\ f.d2 > 0)
                  \/ (f.d1 = 5 /\ f.d2 = 0 /\ f.above) IN
        IF up THEN [d1 |-> 1, d2 |-> 0, e |-> -10] ELSE zero
    ELSE zero

\* f"{value:.10f}"
Fixed10(f) ==
    LET r   == Round10(f)
        top == IF r.e > 0 THEN r.e ELSE 0
        int == [k \in 1..(top + 1) |-> Digit(DigitAt(r, top + 1 - k))]
        fra == [k \in 1..10 |-> Digit(DigitAt(r, 0 - k))]
    IN  (IF f.neg THEN <<"-">> ELSE <<>>) \o int \o <<".">> \o fra

\* f"{value:.1e}": two significant digits, exponent of at least two digits
Sci1(f) ==
    LET ex == IF f.e < 0 THEN 0 - f.e ELSE f.e IN
    (IF f.neg THEN <<"-">> ELSE <<>>)
    \o <<Digit(f.d1), ".", Digit(f.d2), "e", IF f.e < 0 THEN "-" ELSE "+">>
    \o (IF ex < 10 THEN <<"0">> ELSE <<>>) \o NatToStr(ex)

\* s.rstrip(c)
RECURSIVE RStrip(_, _)
RStrip(s, c) ==
    IF s # <<>> /\ s[Len(s)] = c THEN RStrip(SubSeq(s, 1, Len(s) - 1), c) ELSE s

\* s.split('.')[-1]: what follows the last point (all of s when it has none)
RECURSIVE AfterLastDot(_)
AfterLastDot(s) ==
    IF s = <<>> \/ s[Len(s)] = "." THEN <<>>
    ELSE AfterLastDot(SubSeq(s, 1, Len(s) - 1)) \o <<s[Len(s)]>>

\* whether format_value(value) raises
FormatRaises(value) == value.t = "bad"

\* more than this many decimals after rounding to 10: scientific notation
SciThreshold == 3

\* format_value(value), for a value on which it does not raise
format_value(value) ==
    IF value.t = "float" THEN
        IF Len(AfterLastDot(RStrip(Fixed10(value), "0"))) > SciThreshold
        THEN Sci1(value)
        ELSE RStrip(RStrip(Fixed10(value), "0"), ".")
    ELSE IF value.t = "bool" THEN
        IF value.b THEN <<".", "t", "r", "u", "e", ".">>
        ELSE <<".", "f", "a", "l", "s", "e", ".">>
    ELSE IF value.t = "int" THEN IntToStr(value.i)
    ELSE value.s

-----------------------------------------------------------------------------
(* modify_par_file.                                                        *)

\* file.readlines(): the content cut after every newline
RECURSIVE ReadLines(_)
ReadLines(text) ==
    IF text = <<>> THEN <<>>
    ELSE LET n == DotRun(text, 1) IN
         IF n >= Len(text) THEN <<text>>
         ELSE <<SubSeq(text, 1, n + 1)>> \o ReadLines(SubSeq(text, n + 2, Len(text)))

\* file.writelines(lines)
WriteLines(ls) == Concat(ls)

\* the longest n in 1..m with s[a + n + 1] = "=" (0: none): \S+ gives back
\* characters until an "=" follows it directly
RECURSIVE BacktrackKey(_, _, _)
BacktrackKey(s, a, n) ==
    IF n = 0 THEN 0
    ELSE IF s[a + n + 1] = "=" THEN n
    ELSE BacktrackKey(s, a, n - 1)

\* re.match(r'(\s*\S+)(\s*=\s*)(.*)', line): ok and the three groups.
\* All quantifiers are greedy: \s* takes the leading blanks, \S+ the whole
\* run of non-blanks, then blanks and "=" must follow; failing that \S+ gives
\* back characters from its end.  After "=", \s* takes every blank, the
\* line's newline included, and .* the rest up to a newline.
Match(line) ==
    LET a   == RunLen(line, 1, TRUE)
        m   == RunLen(line, a + 1, FALSE)
        w   == RunLen(line, a + m + 1, TRUE)
        n   == IF m = 0 THEN 0
               ELSE IF a + m + w + 1 <= Len(line) /\ line[a + m + w + 1] = "="
                    THEN m
               ELSE BacktrackKey(line, a, m - 1)
        k   == a + n                                 \* end of group 1
        q   == IF n = m THEN k + w + 1 ELSE k + 1    \* the "="
        w2  == RunLen(line, q + 1, TRUE)
        d   == DotRun(line, q + w2 + 1)
    IN  IF n = 0 THEN [ok |-> FALSE, g1 |-> <<>>, g2 |-> <<>>, g3 |-> <<>>]
        ELSE [ok |-> TRUE,
              g1 |-> SubSeq(line, 1, k),
              g2 |-> SubSeq(line, k + 1, q + w2),
              g3 |-> SubSeq(line, q + w2 + 1, q + w2 + d)]

\* param_name.strip()
Strip(s) ==
    LET a == RunLen(s, 1, TRUE) IN
    IF a = Len(s) THEN <<>>
    ELSE LET b == CHOOSE j \in a + 1..Len(s) :
                      /\ ~IsSpace(s[j])
                      /\ \A i \in j + 1..Len(s) : IsSpace(s[i])
         IN  SubSeq(s, a + 1, b)

\* a left-justification that cuts the value to the field width
ljust_truncating(s, width) ==
    IF Len(s) >= width THEN SubSeq(s, 1, width) ELSE s \o Spaces(width - Len(s))

\* new_value.ljust(width)
ljust(s, width) ==
    IF Len(s) >= width THEN s ELSE s \o Spaces(width - Len(s))

\* whether the loop body rewrites this line: it matches and its key is requested
Requested(line, mods) ==
    Match(line).ok /\ Strip(Match(line).g1) \in DOMAIN mods

\* lines[i] after the loop body, for a line whose value renders
RewriteLine(line, mods) ==
    LET mt == Match(line) IN
    IF ~Requested(line, mods) THEN line
    ELSE mt.g1 \o mt.g2
         \o ljust(format_value(mods[Strip(mt.g1)]), Len(mt.g3)) \o <<NL>>

\* the first line on which format_value raises (0: none); the call is outside
\* the try block, so the exception leaves modify_par_file
FirstRaise(ls, mods) ==
    LET bad == {i \in 1..Len(ls) :
                   Requested(ls[i], mods) /\ FormatRaises(mods[Strip(Match(ls[i]).g1)])}
    IN  IF bad = {} THEN 0 ELSE CHOOSE i \in bad : \A j \in bad : i <= j

\* modify_par_file(modifications)
ModifyParFile ==
    /\ parRuns < MaxRuns
    /\ LET ls == ReadLines(parFile)
           r  == FirstRaise(ls, modifications)
       IN  /\ readLines' = ls
           /\ parPrev' = parFile
           /\ parRuns' = parRuns + 1
           /\ parLog' = <<>>
           /\ IF r # 0
              THEN \* format_value raised at line r: lines[1..r-1] are rewritten in
                   \* memory, nothing is written
                   /\ lines' = [i \in 1..Len(ls) |->
                                   IF i < r THEN RewriteLine(ls[i], modifications)
                                   ELSE ls[i]]
                   /\ parRaised' = TRUE
                   /\ parWrote' = FALSE
                   /\ parFile' = parFile
              ELSE /\ lines' = [i \in 1..Len(ls) |-> RewriteLine(ls[i], modifications)]
                   /\ parRaised' = FALSE
                   /\ parWrote' = TRUE
                   /\ parFile' = WriteLines(lines')
    /\ UNCHANGED <<modifications, nonParVars>>

\* the characters Par_file contents are drawn from
FileAlphabet == {"K", "=", SP, NL}

RECURSIVE TextsOfLen(_)
TextsOfLen(n) ==
    IF n = 0 THEN {<<>>}
    ELSE {<<c>> \o t : c \in FileAlphabet, t \in TextsOfLen(n - 1)}

Texts == UNION {TextsOfLen(n) : n \in 0..MaxFileLen}

KeyK  == <<"K">>
KeyKK == <<"K", "K">>

\* the modifications dicts enumerated
ModChoices ==
    { <<>>,
      (KeyK :> IntVal(7)),
      (KeyK :> BoolVal(TRUE)),
      (KeyK :> BadVal),
      (KeyK :> IntVal(7)) @@ (KeyKK :> IntVal(1)),
      (KeyK :> BadVal) @@ (KeyKK :> IntVal(1)) }

ParInit ==
    /\ parFile \in Texts
    /\ modifications \in ModChoices
    /\ readLines = <<>>
    /\ lines = <<>>
    /\ parPrev = <<>>
    /\ parRuns = 0
    /\ parRaised = FALSE
    /\ parWrote = FALSE
    /\ parLog = <<>>

\* the patcher is not part of the run
ParIdle ==
    /\ parFile = <<>>
    /\ modifications = <<>>
    /\ readLines = <<>>
    /\ lines = <<>>
    /\ parPrev = <<>>
    /\ parRuns = MaxRuns
    /\ parRaised = FALSE
    /\ parWrote = FALSE
    /\ parLog = <<>>

-----------------------------------------------------------------------------
(* One call of format_value on an enumerated argument.                     *)

FmtInputs ==
    Floats
    \cup {IntVal(n) : n \in (0 - MaxInt)..MaxInt} \cup {IntVal(8000)}
    \cup {BoolVal(b) : b \in BOOLEAN}
    \cup {StrVal(<<>>), StrVal(<<"a", "b">>), BadVal}

FmtInit ==
    /\ fmtIn \in FmtInputs
    /\ fmtOut = <<>>
    /\ fmtState = "input"

FmtIdle ==
    /\ fmtIn = IntVal(0)
    /\ fmtOut = <<>>
    /\ fmtState = "idle"

FormatValue ==
    /\ fmtState = "input"
    /\ IF FormatRaises(fmtIn)
       THEN fmtState' = "raised" /\ fmtOut' = fmtOut
       ELSE fmtState' = "done" /\ fmtOut' = format_value(fmtIn)
    /\ UNCHANGED <<fmtIn, nonFmtVars>>

-----------------------------------------------------------------------------
(* Workflow.py: the driver, with forward.main inlined.                     *)

\* largest `stop` of combine_vtk enumerated (start is 0 or 1)
MaxStop == 3
\* largest `step` of combine_vtk enumerated
MaxStep == 2
\* largest NPROC read from Par_file
MaxNproc == 2

\* the driver's spec order of the same statements: mesh after the patch
Script_MeshAfterPatch ==
    <<"zoom", "tomo", "source", "station", "par", "mesh",
      "setup", "parse", "decompose", "gendb", "solver", "combine", "plot">>

\* the statements of Workflow.py in program order; "setup" .. "combine" are
\* the body of forward.main
Script ==
    <<"zoom", "mesh", "tomo", "source", "station", "par",
      "setup", "parse", "decompose", "gendb", "solver", "combine", "plot">>

\* the statement after `here` ("done" after the last)
After(here) ==
    LET k == CHOOSE i \in 1..Len(Script) : Script[i] = here IN
    IF k = Len(Script) THEN "done" ELSE Script[k + 1]

\* what a statement writes
Outputs(st) ==
    CASE st = "zoom"     -> {"model/zoom.stl", "model/stl_details.txt"}
      [] st = "mesh"     -> {"MESH"}
      [] st = "tomo"     -> {"DATA/tomo_files/tomography_model.xyz"}
      [] st = "source"   -> {"DATA/CMTSOLUTION"}
      [] st = "station"  -> {"DATA/STATIONS"}
      [] st = "par"      -> {"DATA/Par_file"}
      [] st = "setup"    -> {"OUTPUT_FILES/Par_file", "OUTPUT_FILES/CMTSOLUTION",
                             "OUTPUT_FILES/STATIONS", "bin"}
      [] st = "parse"    -> {"LOCAL_PATH"}
      [] st = "decompose" -> {"DATABASES_MPI/proc.Database"}
      [] st = "gendb"    -> {"DATABASES_MPI/proc.bin"}
      [] st = "solver"   -> {"OUTPUT_FILES/traces"}
      [] st = "combine"  -> {"Visualization/wave_field"}
      [] st = "plot"     -> {"Visualization/wave"}

\* shutil.rmtree(output_dir): what setup_example removes
UnderOutputFiles ==
    {"OUTPUT_FILES/Par_file", "OUTPUT_FILES/CMTSOLUTION", "OUTPUT_FILES/STATIONS",
     "OUTPUT_FILES/traces"}

\* a run_command that never ends the run
RunCommandFails_Unchecked(rc) == FALSE

\* run_command(command): subprocess.run(..., check=True) raises on a non-zero
\* exit code (and the test that follows would exit(1))
RunCommandFails(rc) == rc # 0

\* an exception, or sys.exit, in a statement of the module body: nothing
\* catches it and the interpreter ends
Raise(part) ==
    /\ pc' = "halted"
    /\ files' = files \cup part
    /\ faultAt' = Len(started')
    /\ filesAtFault' = files'

Proceed(st) ==
    /\ pc' = After(st)
    /\ files' = files \cup Outputs(st)
    /\ UNCHANGED <<faultAt, filesAtFault>>

\* a statement that is Python code: it returns, or raises having written a
\* part of its output
PyStatement(st) ==
    /\ pc = st
    /\ started' = Append(started, st)
    /\ \/ Proceed(st)
       \/ \E part \in SUBSET Outputs(st) : Raise(part)
    /\ UNCHANGED <<nonPipeVars, cmds, NPROC, combineArgs, vtkLine>>

\* a statement that is one run_command
CmdStatement(st, cmd) ==
    /\ pc = st
    /\ started' = Append(started, st)
    /\ \E rc \in {0, 1} :
          /\ cmds' = Append(cmds, [cmd |-> cmd, np |-> NPROC, rc |-> rc])
          /\ IF RunCommandFails(rc) THEN Raise({}) ELSE Proceed(st)
    /\ UNCHANGED <<nonPipeVars, NPROC, combineArgs, vtkLine>>

\* zoom.zoom_stl(stl_file, scale_factor)
ZoomStl == PyStatement("zoom")
\* generate_mesh.generate_mesh(mesh_size, CUBIT_PATH, SPECFEM_GEOCUBIT_PATH)
GenerateMesh == PyStatement("mesh")
\* tomography_model.create_tomography_model(...)
BuildTomography == PyStatement("tomo")
\* write_source_station.write_source(source, f0, M)
WriteSource == PyStatement("source")
\* write_source_station.write_station(R)
WriteStation == PyStatement("station")
\* write_par_file.modify_par_file(modifications)
PatchParFile == PyStatement("par")

\* forward.setup_example: OUTPUT_FILES is emptied, then the three DATA files
\* are copied into it
SetupExample ==
    /\ pc = "setup"
    /\ started' = Append(started, "setup")
    /\ \/ /\ pc' = After("setup")
          /\ files' = (files \ UnderOutputFiles) \cup Outputs("setup")
          /\ UNCHANGED <<faultAt, filesAtFault>>
       \/ \E part \in SUBSET Outputs("setup") :
             /\ pc' = "halted"
             /\ files' = (files \ UnderOutputFiles) \cup part
             /\ faultAt' = Len(started')
             /\ filesAtFault' = files'
    /\ UNCHANGED <<nonPipeVars, cmds, NPROC, combineArgs, vtkLine>>

\* forward.main, the scan of DATA/Par_file: NPROC is assigned; without a
\* LOCAL_PATH line the run exits, and int() of a bad NPROC value raises
ParseParFile ==
    /\ pc = "parse"
    /\ started' = Append(started, "parse")
    /\ \/ \E n \in 1..MaxNproc : NPROC' = n /\ Proceed("parse")
       \/ NPROC' = NPROC /\ Raise({})
    /\ UNCHANGED <<nonPipeVars, cmds, combineArgs, vtkLine>>

\* decompose_mesh(NPROC, mesh_dir, base_mpi_dir)
DecomposeMesh == CmdStatement("decompose", "xdecompose_mesh")
\* generate_databases(NPROC)
GenerateDatabases ==
    CmdStatement("gendb", IF NPROC = 1 THEN "xgenerate_databases"
                          ELSE "mpirun xgenerate_databases")
\* run_solver(NPROC)
RunSolver ==
    CmdStatement("solver", IF NPROC = 1 THEN "xspecfem3D" ELSE "mpirun xspecfem3D")

\* combine_vtk is entered: os.makedirs of the output directory
CombineVtk ==
    /\ pc = "combine"
    /\ started' = Append(started, "combine")
    /\ \/ /\ pc' = "combine_loop"
          /\ files' = files \cup Outputs("combine")
          /\ UNCHANGED <<faultAt, filesAtFault>>
       \/ Raise({})
    /\ vtkLine' = combineArgs.start
    /\ UNCHANGED <<nonPipeVars, cmds, NPROC, combineArgs>>

\* one pass of `for line in range(start, stop + 1, step)`, or its end
CombineStep ==
    /\ pc = "combine_loop"
    /\ IF vtkLine > combineArgs.stop
       THEN /\ pc' = After("combine")
            /\ UNCHANGED <<files, cmds, faultAt, filesAtFault, vtkLine>>
       ELSE /\ vtkLine' = vtkLine + combineArgs.step
            /\ \E rc \in {0, 1} :
                  /\ cmds' = Append(cmds, [cmd |-> "xcombine_vol_data_vtk",
                                           np |-> vtkLine, rc |-> rc])
                  /\ IF RunCommandFails(rc)
                     THEN /\ pc' = "halted"
                          /\ faultAt' = Len(started)
                          /\ filesAtFault' = files
                          /\ files' = files
                     ELSE /\ pc' = "combine_loop"
                          /\ UNCHANGED <<files, faultAt, filesAtFault>>
    /\ UNCHANGED <<nonPipeVars, started, NPROC, combineArgs>>

\* plot_wave.plot_seismic_waveform(dt=1e-4, nt=8000)
PlotWave == PyStatement("plot")

PipeInit ==
    /\ pc = Script[1]
    /\ started = <<>>
    /\ files = {}
    /\ cmds = <<>>
    /\ faultAt = 0
    /\ filesAtFault = {}
    /\ NPROC = 0
    /\ combineArgs \in [start : 0..1, stop : 0..MaxStop, step : 1..MaxStep]
    /\ vtkLine = combineArgs.start

PipeIdle ==
    /\ pc = "idle"
    /\ started = <<>>
    /\ files = {}
    /\ cmds = <<>>
    /\ faultAt = 0
    /\ filesAtFault = {}
    /\ NPROC = 0
    /\ combineArgs = [start |-> 0, stop |-> 0, step |-> 1]
    /\ vtkLine = 0

-----------------------------------------------------------------------------
(* create_tomography_model.  The arguments are integers; a coordinate or   *)
(* velocity, which may be a half, is stored doubled (x2 = 2 * x).  The     *)
(* file is kept as its lines, a line as the tuple of its numbers.          *)

\* largest length, width and height enumerated
MaxDim == 3
\* largest mesh_size enumerated
MaxMesh == 2
\* largest gradient enumerated
MaxGradient == 1

\* int(a / b): the quotient cut towards zero, for a >= 0
TruncDiv(a, b) == IF b > 0 THEN a \div b ELSE 0 - (a \div (0 - b))

\* math.ceil(a / b), b # 0
CeilDiv(a, b) ==
    IF b > 0 THEN 0 - ((0 - a) \div b) ELSE 0 - (a \div (0 - b))

\* nx, ny, nz
Counts(a) ==
    <<CeilDiv(a.length, a.mesh_size), CeilDiv(a.width, a.mesh_size),
      CeilDiv(a.height, a.mesh_size)>>

\* the four header lines
Header(a) ==
    << <<0 - a.length, 0 - a.width, 0 - a.height, a.length, a.width, a.height>>,
       <<a.mesh_size, a.mesh_size, a.mesh_size>>,
       Counts(a),
       <<a.vp_min, a.vp_max, a.vs_min, a.vs_max, a.rho, a.rho>> >>

\* a sample whose velocities are kept within [vp_min, vp_max] and
\* [vs_min, vs_max]
Sample_Clamped(a, i, j, k) ==
    LET x2 == (0 - a.length) + 2 * i * a.mesh_size
        y2 == (0 - a.width) + 2 * j * a.mesh_size
        z2 == (0 - a.height) + 2 * k * a.mesh_size
        clamp(v, lo, hi) == IF v < lo THEN lo ELSE IF v > hi THEN hi ELSE v
    IN  <<x2, y2, z2,
          clamp(2 * a.vp_min + a.gradient * z2, 2 * a.vp_min, 2 * a.vp_max),
          clamp(2 * a.vs_min + a.gradient * z2, 2 * a.vs_min, 2 * a.vs_max),
          a.rho>>

\* the line appended for the grid point i, j, k
Sample(a, i, j, k) ==
    LET x2 == (0 - a.length) + 2 * i * a.mesh_size
        y2 == (0 - a.width) + 2 * j * a.mesh_size
        z2 == (0 - a.height) + 2 * k * a.mesh_size
    IN  <<x2, y2, z2, 2 * a.vp_min + a.gradient * z2,
          2 * a.vs_min + a.gradient * z2, a.rho>>

\* for i in range(nx): model_values.append(...), from i on
LoopI(acc, a, i, j, k) ==
    IF i >= Counts(a)[1] THEN acc
    ELSE acc \o [m \in 1..(Counts(a)[1] - i) |-> Sample(a, i + m - 1, j, k)]

\* for j in range(ny)
RECURSIVE LoopJ(_, _, _, _)
LoopJ(acc, a, j, k) ==
    IF j >= Counts(a)[2] THEN acc
    ELSE LoopJ(LoopI(acc, a, 0, j, k), a, j + 1, k)

\* for k in range(nz)
RECURSIVE LoopK(_, _, _)
LoopK(acc, a, k) ==
    IF k >= Counts(a)[3] THEN acc
    ELSE LoopK(LoopJ(acc, a, 0, k), a, k + 1)

\* the loops nested the other way round: x outermost, z innermost
ModelValues_XOuter(a) ==
    LET n == Counts(a)
        at(m) == Sample(a, m \div (n[2] * n[3]), (m \div n[3]) % n[2], m % n[3])
    IN  IF n[1] <= 0 \/ n[2] <= 0 \/ n[3] <= 0 THEN <<>>
        ELSE [m \in 1..(n[1] * n[2] * n[3]) |-> at(m - 1)]

\* model_values after the three loops
ModelValues(a) == LoopK(<<>>, a, 0)

\* create_tomography_model(...): the division by a mesh_size of 0 raises
\* before anything is written
CreateTomographyModel ==
    /\ tomoState = "input"
    /\ IF tomoArgs.mesh_size = 0
       THEN tomoState' = "raised" /\ tomoFile' = tomoFile
       ELSE /\ tomoState' = "done"
            /\ tomoFile' = Header(tomoArgs) \o ModelValues(tomoArgs)
    /\ UNCHANGED <<tomoArgs, nonTomoVars>>

\* the velocities and density Workflow.py passes
WorkflowVpMin == 5400
WorkflowVpMax == 6600
WorkflowVsMin == 3300
WorkflowVsMax == 4200
WorkflowRho   == 2400

TomoArgs(l, w, h, ms, g) ==
    [length |-> l, width |-> w, height |-> h, mesh_size |-> ms,
     vp_min |-> WorkflowVpMin, vp_max |-> WorkflowVpMax,
     vs_min |-> WorkflowVsMin, vs_max |-> WorkflowVsMax,
     rho |-> WorkflowRho, gradient |-> g]

\* the mesh size Workflow.py passes
WorkflowMeshSize == 40

\* a gradient that takes vp and vs above vp_max and vs_max half a unit above
\* the centre of the model
SteepGradient == 2 * (WorkflowVpMax - WorkflowVpMin) + 1

TomoInputs ==
    {TomoArgs(l, w, h, ms, g) :
        l \in 0..MaxDim, w \in 0..MaxDim, h \in 0..MaxDim,
        ms \in -1..MaxMesh, g \in 0..MaxGradient}
    \cup {TomoArgs(WorkflowMeshSize, WorkflowMeshSize, WorkflowMeshSize,
                   WorkflowMeshSize, 0)}
    \cup {TomoArgs(MaxDim, MaxDim, MaxDim, 1, SteepGradient)}

TomoInit ==
    /\ tomoArgs \in TomoInputs
    /\ tomoFile = <<>>
    /\ tomoState = "input"

TomoIdle ==
    /\ tomoArgs = TomoArgs(1, 1, 1, 1, 0)
    /\ tomoFile = <<>>
    /\ tomoState = "idle"

-----------------------------------------------------------------------------
(* write_station, and plot_seismic_waveform reading the traces the solver  *)
(* leaves for the stations of ./DATA/STATIONS.  A station's position is    *)
(* kept as its radius and its angle in degrees.                            *)

\* largest ntr enumerated
MaxNtr == 75

\* np.arange(0, 361, 5): the stop and the step
AngleStop == 361
AngleStep == 5
\* ntr=72, the default of write_station
DefaultNtr == 72
\* range(72), the traces of the first figure
PlotTraces == 72
\* R = 800 of Workflow.py
WorkflowR == 800

\* chr(65) .. chr(90)
Letters ==
    <<"A", "B", "C", "D", "E", "F", "G", "H", "I", "J", "K", "L", "M",
      "N", "O", "P", "Q", "R", "S", "T", "U", "V", "W", "X", "Y", "Z">>

\* np.arange(start, stop, step) for a positive step
Arange(start, stop, step) ==
    [n \in 1..CeilDiv(stop - start, step) |-> start + (n - 1) * step]

\* phiar, in degrees
PhiAr == Arange(0, AngleStop, AngleStep)

\* char2 then char1
StationCode_Swapped(i) == <<Letters[(i % 26) + 1], Letters[(i \div 26) + 1]>>

\* f'{char1}{char2}' with char1 = chr(65 + (i // 26)), char2 = chr(65 + (i % 26))
StationCode(i) == <<Letters[(i \div 26) + 1], Letters[(i % 26) + 1]>>

\* f'X{i+1}'
StationName(i) == <<"X">> \o NatToStr(i + 1)

\* the row of receiver i
StationRow(a, i) ==
    [name |-> StationName(i), code |-> StationCode(i), r |-> a.R, phi |-> PhiAr[i + 1]]

\* write_station(R, ntr): phiar[i] raises IndexError in the first loop when
\* i reaches len(phiar), before the file is opened
WriteStationFile ==
    /\ staState = "input"
    /\ IF staArgs.ntr > Len(PhiAr)
       THEN staState' = "raised" /\ staFile' = staFile
       ELSE /\ staState' = "done"
            /\ staFile' = [n \in 1..staArgs.ntr |-> StationRow(staArgs, n - 1)]
    /\ UNCHANGED <<staArgs, traces, plotIdx, plotOpened, plotState, nonStaVars>>

\* <network>.<station>.FXZ.semd, the solver's name for a station's trace
TraceName(code, name) ==
    code \o <<".">> \o name \o <<".", "F", "X", "Z", ".", "s", "e", "m", "d">>

\* the solver has run: one trace for each line of ./DATA/STATIONS
SolverWritesTraces ==
    /\ staState = "done"
    /\ plotState = "wait"
    /\ traces' = {TraceName(staFile[n].code, staFile[n].name) : n \in 1..Len(staFile)}
    /\ plotState' = "loop"
    /\ UNCHANGED <<staArgs, staFile, staState, plotIdx, plotOpened, nonStaVars>>

\* [chr(i) + chr(j) for i in range(65, 91) for j in range(65, 91)]
RECURSIVE FileHeadFrom(_)
FileHeadFrom(a) ==
    IF a > Len(Letters) THEN <<>>
    ELSE [b \in 1..Len(Letters) |-> <<Letters[a], Letters[b]>>] \o FileHeadFrom(a + 1)

filehead == FileHeadFrom(1)

\* one pass of `for i in range(72)`: np.loadtxt raises when the file is missing
PlotLoadTrace ==
    /\ plotState = "loop"
    /\ IF plotIdx >= PlotTraces
       THEN /\ plotState' = "single"
            /\ plotIdx' = 0
            /\ plotOpened' = plotOpened
       ELSE LET path == TraceName(filehead[plotIdx + 1], <<"X">> \o NatToStr(plotIdx + 1)) IN
            /\ plotOpened' = Append(plotOpened, path)
            /\ IF path \in traces
               THEN plotState' = "loop" /\ plotIdx' = plotIdx + 1
               ELSE plotState' = "raised" /\ plotIdx' = plotIdx
    /\ UNCHANGED <<staArgs, staFile, staState, traces, nonStaVars>>

\* datapath1 .. datapath4 without the directory
SingleTraces ==
    << <<"A", "A", ".", "X", "1", ".", "F", "X", "Z", ".", "s", "e", "m", "d">>,
       <<"A", "S", ".", "X", "1", "9", ".", "F", "X", "Z", ".", "s", "e", "m", "d">>,
       <<"B", "K", ".", "X", "3", "7", ".", "F", "X", "Z", ".", "s", "e", "m", "d">>,
       <<"C", "C", ".", "X", "5", "5", ".", "F", "X", "Z", ".", "s", "e", "m", "d">> >>

\* data1 .. data4 = np.loadtxt(datapath1 .. datapath4)
PlotLoadSingle ==
    /\ plotState = "single"
    /\ IF plotIdx >= Len(SingleTraces)
       THEN /\ plotState' = "done"
            /\ UNCHANGED <<plotIdx, plotOpened>>
       ELSE /\ plotOpened' = Append(plotOpened, SingleTraces[plotIdx + 1])
            /\ IF SingleTraces[plotIdx + 1] \in traces
               THEN plotState' = "single" /\ plotIdx' = plotIdx + 1
               ELSE plotState' = "raised" /\ plotIdx' = plotIdx
    /\ UNCHANGED <<staArgs, staFile, staState, traces, nonStaVars>>

StaInit ==
    /\ staArgs \in [R : {WorkflowR}, ntr : 0..MaxNtr]
    /\ staFile = <<>>
    /\ staState = "input"
    /\ traces = {}
    /\ plotIdx = 0
    /\ plotOpened = <<>>
    /\ plotState = "wait"

StaIdle ==
    /\ staArgs = [R |-> WorkflowR, ntr |-> DefaultNtr]
    /\ staFile = <<>>
    /\ staState = "idle"
    /\ traces = {}
    /\ plotIdx = 0
    /\ plotOpened = <<>>
    /\ plotState = "idle"

-----------------------------------------------------------------------------
(* zoom.py: calc_dims, scale_model, zoom_stl.  The vertices are binary     *)
(* floating-point numbers (float32 in the mesh library); the model keeps   *)
(* the rounding of every operation but shortens the significand to         *)
(* MantissaBits bits.  A coordinate is stored doubled (x2 = 2 * x), which  *)
(* commutes with the rounding.  The factor 1.2 / 10 of the padding is      *)
(* applied exactly.                                                        *)

\* bits of the significand
MantissaBits == 3
\* largest coordinate of a vertex of the surface read
MaxCoord == 7
\* largest scale_factor enumerated
MaxScale == 3

\* the padding factor 1.2 as 12 / 10, and the grid 10 of the padded box
PadTimesTen == 12
PadGrid == 10

Abs(n) == IF n < 0 THEN 0 - n ELSE n

\* the exponent e of the binade of m >= 0: m < 2^(MantissaBits + e), e >= 0
RECURSIVE Binade(_, _)
Binade(m, e) == IF m < 2 ^ (MantissaBits + e) THEN e ELSE Binade(m, e + 1)

\* the floating-point number nearest to n, ties to the even significand
RoundF(n) ==
    LET m == Abs(n)
        e == Binade(m, 0)
        q == m \div (2 ^ e)
        rem == m % (2 ^ e)
        up == 2 * rem > 2 ^ e \/ (2 * rem = 2 ^ e /\ q % 2 = 1)
        r == (IF up THEN q + 1 ELSE q) * (2 ^ e)
    IN  IF n < 0 THEN 0 - r ELSE r

\* np.min(vertices, axis=0)[m] and np.max(vertices, axis=0)[m]
AxisMin(vs, m) == CHOOSE v \in {vs[n][m] : n \in 1..Len(vs)} :
                      \A n \in 1..Len(vs) : v <= vs[n][m]
AxisMax(vs, m) == CHOOSE v \in {vs[n][m] : n \in 1..Len(vs)} :
                      \A n \in 1..Len(vs) : v >= vs[n][m]

\* the extent padded and rounded to the nearest multiple of 10
Padded_Nearest(d2) ==
    ((PadTimesTen * d2 + 10 * PadGrid) \div (2 * 10 * PadGrid)) * PadGrid

\* math.ceil(d * 1.2 / 10) * 10 for an extent whose double is d2
Padded(d2) == CeilDiv(PadTimesTen * d2, 2 * 10 * PadGrid) * PadGrid

\* calc_dims(model_mesh)
calc_dims(vs) ==
    LET mn == [m \in 1..3 |-> AxisMin(vs, m)]
        mx == [m \in 1..3 |-> AxisMax(vs, m)]
        dimensions == [m \in 1..3 |-> RoundF(mx[m] - mn[m])]
        length_width == Padded(IF dimensions[1] >= dimensions[2]
                               THEN dimensions[1] ELSE dimensions[2])
        height == Padded(dimensions[3])
    IN  [min_coords |-> mn, max_coords |-> mx, dimensions |-> dimensions,
         length |-> length_width, width |-> length_width, height |-> height]

\* the surface scaled and saved where it lies, not moved to the origin
scale_model_Unmoved(vs, scale_factor) ==
    [n \in 1..Len(vs) |-> [m \in 1..3 |-> RoundF(vs[n][m] * scale_factor)]]

\* scale_model(model_mesh, scale_factor, output_filename): the vertices saved
scale_model(vs, scale_factor) ==
    LET scaled == [n \in 1..Len(vs) |-> [m \in 1..3 |-> RoundF(vs[n][m] * scale_factor)]]
        center == [m \in 1..3 |->
                      RoundF(AxisMin(scaled, m) + AxisMax(scaled, m)) \div 2]
    IN  [n \in 1..Len(vs) |-> [m \in 1..3 |-> RoundF(scaled[n][m] - center[m])]]

\* zoom_stl(stl_file, scale_factor): no test of scale_factor; the surface is
\* saved, read back, measured, and the details are written
ZoomStlCall ==
    /\ zoomState = "input"
    /\ LET d1 == calc_dims(zoomArgs.surface)
           saved == scale_model(zoomArgs.surface, zoomArgs.scale_factor)
           d2 == calc_dims(saved)
       IN  /\ stlOut' = saved
           /\ stlDetails' = <<d1, zoomArgs.scale_factor, d2>>
           /\ zoomRet' = <<d1, d2>>
    /\ zoomState' = "done"
    /\ UNCHANGED <<zoomArgs, nonZoomVars>>

\* the coordinates a vertex read from the file can have: floating-point
\* numbers, doubled
Coords == {2 * v : v \in {w \in (0 - MaxCoord)..MaxCoord : RoundF(w) = w}}

\* one triangle with a vertex on each axis plane
Surfaces ==
    {<< <<a, 0, 0>>, <<b, c, 0>>, <<0, 0, d>> >> :
        a \in Coords, b \in {v \in Coords : v >= 0},
        c \in {v \in Coords : v >= 0}, d \in {0, 2, 2 * MaxCoord}}

ZoomInit ==
    /\ zoomArgs \in [surface : Surfaces, scale_factor : -1..MaxScale]
    /\ zoomState = "input"
    /\ stlOut = <<>>
    /\ stlDetails = <<>>
    /\ zoomRet = <<>>

ZoomIdle ==
    /\ zoomArgs = [surface |-> << <<0, 0, 0>>, <<0, 0, 0>>, <<0, 0, 0>> >>,
                   scale_factor |-> 1]
    /\ zoomState = "idle"
    /\ stlOut = <<>>
    /\ stlDetails = <<>>
    /\ zoomRet = <<>>

-----------------------------------------------------------------------------
(* Two runs of Workflow.py started in the same working directory, their    *)
(* steps interleaved by the operating system.  A file written by           *)
(* `with open(path, 'w')` is truncated when it is opened and holds its new *)
(* content when the block is left.  The steps start at                     *)
(* create_tomography_model; the statements before it write model/ and      *)
(* MESH/ only.                                                             *)

Runs == {1, 2}

\* the steps of one run, in program order
ConcScript ==
    <<"tomo_open", "tomo_close", "source_open", "source_close",
      "station_open", "station_close", "par_read", "par_open", "par_close",
      "clear", "copy_par", "copy_cmt", "copy_sta", "parse",
      "decompose", "gendb", "solver", "combine">>

ConcAfter(here) ==
    LET k == CHOOSE i \in 1..Len(ConcScript) : ConcScript[i] = here IN
    IF k = Len(ConcScript) THEN "done" ELSE ConcScript[k + 1]

DataFiles ==
    {"DATA/tomo_files/tomography_model.xyz", "DATA/CMTSOLUTION", "DATA/STATIONS",
     "DATA/Par_file"}
OutputFiles ==
    {"OUTPUT_FILES/Par_file", "OUTPUT_FILES/CMTSOLUTION", "OUTPUT_FILES/STATIONS",
     "OUTPUT_FILES/DATABASES_MPI", "OUTPUT_FILES/traces"}
SharedFiles == DataFiles \cup OutputFiles

Absent == [by |-> 0, st |-> "absent"]
Written(r, st) == [by |-> r, st |-> st]

\* the file a writing step opens, and the file a copying step copies
FileOf(step) ==
    CASE step \in {"tomo_open", "tomo_close"} -> "DATA/tomo_files/tomography_model.xyz"
      [] step \in {"source_open", "source_close", "copy_cmt"} -> "DATA/CMTSOLUTION"
      [] step \in {"station_open", "station_close", "copy_sta"} -> "DATA/STATIONS"
      [] step \in {"par_read", "par_open", "par_close", "copy_par"} -> "DATA/Par_file"

CopyOf(step) ==
    CASE step = "copy_par" -> "OUTPUT_FILES/Par_file"
      [] step = "copy_cmt" -> "OUTPUT_FILES/CMTSOLUTION"
      [] step = "copy_sta" -> "OUTPUT_FILES/STATIONS"

\* what the solver reads
SolverInputs == DataFiles \cup {"OUTPUT_FILES/DATABASES_MPI"}

\* a run executes its next statement only while the other run is not between
\* its first and its last statement
CanStep_Exclusive(r) ==
    /\ runPc[r] \notin {"done", "halted"}
    /\ \A o \in Runs \ {r} : runPc[o] \in {ConcScript[1], "done", "halted"}

\* a run executes its next statement whenever it has one: no statement of
\* the driver or of lib/ takes a lock or looks for another run
CanStep(r) == runPc[r] \notin {"done", "halted"}

Goto(r, next) == runPc' = [runPc EXCEPT ![r] = next]

\* open(path, 'w'): the file is truncated
OpenForWrite(r) ==
    /\ CanStep(r)
    /\ runPc[r] \in {"tomo_open", "source_open", "station_open", "par_open"}
    /\ shared' = [shared EXCEPT ![FileOf(runPc[r])] = Written(r, "partial")]
    /\ Goto(r, ConcAfter(runPc[r]))
    /\ UNCHANGED <<parRead, consumed, nonConcVars>>

\* the with block is left: the content is flushed and the file closed
CloseAfterWrite(r) ==
    /\ CanStep(r)
    /\ runPc[r] \in {"tomo_close", "source_close", "station_close"}
    /\ shared' = [shared EXCEPT ![FileOf(runPc[r])] = Written(r, "whole")]
    /\ Goto(r, ConcAfter(runPc[r]))
    /\ UNCHANGED <<parRead, consumed, nonConcVars>>

\* modify_par_file: lines = file.readlines()
ParReadLines(r) ==
    /\ CanStep(r)
    /\ runPc[r] = "par_read"
    /\ parRead' = [parRead EXCEPT ![r] = shared["DATA/Par_file"]]
    /\ Goto(r, ConcAfter(runPc[r]))
    /\ UNCHANGED <<shared, consumed, nonConcVars>>

\* modify_par_file: file.writelines(lines) of the lines read, patched
ParWriteLines(r) ==
    /\ CanStep(r)
    /\ runPc[r] = "par_close"
    /\ shared' = [shared EXCEPT !["DATA/Par_file"] = Written(r, parRead[r].st)]
    /\ Goto(r, ConcAfter(runPc[r]))
    /\ UNCHANGED <<parRead, consumed, nonConcVars>>

\* setup_example: shutil.rmtree(output_dir) and os.makedirs(output_dir)
ClearOutput(r) ==
    /\ CanStep(r)
    /\ runPc[r] = "clear"
    /\ shared' = [f \in SharedFiles |-> IF f \in OutputFiles THEN Absent ELSE shared[f]]
    /\ Goto(r, ConcAfter(runPc[r]))
    /\ UNCHANGED <<parRead, consumed, nonConcVars>>

\* setup_example: shutil.copy(os.path.join(data_dir, ...), output_dir)
CopyConfig(r) ==
    /\ CanStep(r)
    /\ runPc[r] \in {"copy_par", "copy_cmt", "copy_sta"}
    /\ shared' = [shared EXCEPT ![CopyOf(runPc[r])] = shared[FileOf(runPc[r])]]
    /\ Goto(r, ConcAfter(runPc[r]))
    /\ UNCHANGED <<parRead, consumed, nonConcVars>>

\* forward.main's scan of DATA/Par_file: a file cut short may lack the
\* LOCAL_PATH line, and the run exits
ParseConfig(r) ==
    /\ CanStep(r)
    /\ runPc[r] = "parse"
    /\ \/ Goto(r, ConcAfter(runPc[r]))
       \/ shared["DATA/Par_file"].st # "whole" /\ Goto(r, "halted")
    /\ UNCHANGED <<shared, parRead, consumed, nonConcVars>>

\* decompose_mesh and generate_databases: the databases under LOCAL_PATH are
\* written; generate_databases fails when decompose_mesh's are gone
BuildDatabases(r) ==
    /\ CanStep(r)
    /\ runPc[r] \in {"decompose", "gendb"}
    /\ IF runPc[r] = "gendb" /\ shared["OUTPUT_FILES/DATABASES_MPI"].st = "absent"
       THEN Goto(r, "halted") /\ shared' = shared
       ELSE /\ shared' = [shared EXCEPT !["OUTPUT_FILES/DATABASES_MPI"] = Written(r, "whole")]
            /\ Goto(r, ConcAfter(runPc[r]))
    /\ UNCHANGED <<parRead, consumed, nonConcVars>>

\* run_solver: the solver reads its inputs as they are and leaves the traces
Solve(r) ==
    /\ CanStep(r)
    /\ runPc[r] = "solver"
    /\ consumed' = [consumed EXCEPT ![r] = [f \in SolverInputs |-> shared[f]]]
    /\ IF \E f \in SolverInputs : shared[f].st = "absent"
       THEN Goto(r, "halted") /\ shared' = shared
       ELSE /\ shared' = [shared EXCEPT !["OUTPUT_FILES/traces"] = Written(r, "whole")]
            /\ Goto(r, ConcAfter(runPc[r]))
    /\ UNCHANGED <<parRead, nonConcVars>>

\* combine_vtk: reads the databases
CombineOutputs(r) ==
    /\ CanStep(r)
    /\ runPc[r] = "combine"
    /\ IF shared["OUTPUT_FILES/DATABASES_MPI"].st = "absent"
       THEN Goto(r, "halted")
       ELSE Goto(r, ConcAfter(runPc[r]))
    /\ UNCHANGED <<shared, parRead, consumed, nonConcVars>>

\* the next statement of run r
RunStep(r) ==
    \/ OpenForWrite(r)
    \/ CloseAfterWrite(r)
    \/ ParReadLines(r)
    \/ ParWriteLines(r)
    \/ ClearOutput(r)
    \/ CopyConfig(r)
    \/ ParseConfig(r)
    \/ BuildDatabases(r)
    \/ Solve(r)
    \/ CombineOutputs(r)

\* both runs are started; DATA/Par_file is the template of the repository
ConcInit ==
    /\ runPc = [r \in Runs |-> ConcScript[1]]
    /\ shared = [f \in SharedFiles |->
                    IF f = "DATA/Par_file" THEN Written(0, "whole") ELSE Absent]
    /\ parRead = [r \in Runs |-> Absent]
    /\ consumed = [r \in Runs |-> <<>>]

ConcIdle ==
    /\ runPc = [r \in Runs |-> "done"]
    /\ shared = [f \in SharedFiles |-> Absent]
    /\ parRead = [r \in Runs |-> Absent]
    /\ consumed = [r \in Runs |-> <<>>]

-----------------------------------------------------------------------------
(* The hand-off of NPROC inside one run: Workflow.py calls                 *)
(* write_par_file.modify_par_file on DATA/Par_file, then forward.main      *)
(* reads the file back and passes NPROC to the three solver stages.        *)

KeyNPROC == <<"N", "P", "R", "O", "C">>
KeyLOCAL_PATH == <<"L", "O", "C", "A", "L", "_", "P", "A", "T", "H">>

\* line.startswith(prefix)
StartsWith(line, prefix) ==
    Len(line) >= Len(prefix) /\ SubSeq(line, 1, Len(prefix)) = prefix

\* c in line
Contains(line, c) == \E k \in 1..Len(line) : line[k] = c

\* number of characters from s[from] up to, not including, the next "="
RECURSIVE UntilEquals(_, _)
UntilEquals(s, from) ==
    IF from > Len(s) \/ s[from] = "=" THEN 0 ELSE 1 + UntilEquals(s, from + 1)

\* line.split('=')[1]: the text between the first "=" and the next one (or
\* the end of the line); without an "=" the index raises IndexError
SplitField1(line) ==
    LET a == UntilEquals(line, 1) IN
    IF a >= Len(line) THEN [ok |-> FALSE, s |-> <<>>]
    ELSE [ok |-> TRUE, s |-> SubSeq(line, a + 2, a + 1 + UntilEquals(line, a + 2))]

\* the value of a decimal digit character
DigitValue(c) == CHOOSE d \in 0..9 : Digit(d) = c

RECURSIVE StrToNat(_)
StrToNat(s) ==
    IF s = <<>> THEN 0
    ELSE 10 * StrToNat(SubSeq(s, 1, Len(s) - 1)) + DigitValue(s[Len(s)])

\* int(s): blanks around the literal are dropped, then an optional sign and
\* at least one decimal digit must remain; anything else raises ValueError
int(s) ==
    LET t      == Strip(s)
        signed == t # <<>> /\ t[1] \in {"-", "+"}
        body   == IF signed THEN Tail(t) ELSE t
        isDec  == body # <<>> /\ \A k \in 1..Len(body) : \E d \in 0..9 : Digit(d) = body[k]
    IN  IF ~isDec THEN [ok |-> FALSE, v |-> 0]
        ELSE [ok |-> TRUE,
              v |-> IF signed /\ t[1] = "-" THEN 0 - StrToNat(body) ELSE StrToNat(body)]

\* one pass of forward.main's `for line in f`, from the locals sc: nproc and
\* base are <<>> while NPROC is unbound and base_mpi_dir is None
ScanLine(sc, line) ==
    LET f1     == SplitField1(line)
        takesN == StartsWith(line, KeyNPROC) /\ ~Contains(line, "#")
        takesP == StartsWith(line, KeyLOCAL_PATH)
    IN  IF sc.raised THEN sc
        ELSE IF takesN /\ (~f1.ok \/ ~int(Strip(f1.s)).ok)
             THEN [sc EXCEPT !.raised = TRUE]
        ELSE IF takesP /\ ~f1.ok
             THEN [raised |-> TRUE,
                   nproc |-> IF takesN THEN <<int(Strip(f1.s)).v>> ELSE sc.nproc,
                   base |-> sc.base]
        ELSE [raised |-> FALSE,
              nproc |-> IF takesN THEN <<int(Strip(f1.s)).v>> ELSE sc.nproc,
              base |-> IF takesP THEN Strip(f1.s) ELSE sc.base]

RECURSIVE ScanLines(_, _)
ScanLines(sc, ls) ==
    IF ls = <<>> THEN sc ELSE ScanLines(ScanLine(sc, Head(ls)), Tail(ls))

\* the locals of forward.main after its loop over DATA/Par_file
ScanParFile(text) ==
    ScanLines([raised |-> FALSE, nproc |-> <<>>, base |-> <<>>], ReadLines(text))

\* Workflow.py's call of modify_par_file, as a statement of the run
ModifyParFileInRun ==
    /\ pc = "par"
    /\ started' = Append(started, "par")
    /\ LET ls == ReadLines(parFile)
           r  == FirstRaise(ls, modifications)
       IN  /\ readLines' = ls
           /\ parPrev' = parFile
           /\ parRuns' = parRuns + 1
           /\ parLog' = <<>>
           /\ IF r # 0
              THEN /\ lines' = [i \in 1..Len(ls) |->
                                   IF i < r THEN RewriteLine(ls[i], modifications)
                                   ELSE ls[i]]
                   /\ parRaised' = TRUE
                   /\ parWrote' = FALSE
                   /\ parFile' = parFile
                   /\ Raise({})
              ELSE /\ lines' = [i \in 1..Len(ls) |-> RewriteLine(ls[i], modifications)]
                   /\ parRaised' = FALSE
                   /\ parWrote' = TRUE
                   /\ parFile' = WriteLines(lines')
                   /\ Proceed("par")
    /\ UNCHANGED <<modifications, cmds, NPROC, combineArgs, vtkLine,
                   fmtVars, tomoVars, staVars, zoomVars, concVars, meshVars>>

\* forward.main from the scan of DATA/Par_file to the evaluation of
\* decompose_mesh's arguments: int() or the index [1] may raise in the loop;
\* without a LOCAL_PATH value the run exits; with one the directory is made,
\* and reading an NPROC that no line assigned raises UnboundLocalError
MainScanParFile ==
    /\ pc = "parse"
    /\ started' = Append(started, "parse")
    /\ LET sc == ScanParFile(parFile) IN
       /\ NPROC' = IF sc.nproc = <<>> THEN NPROC ELSE sc.nproc[1]
       /\ IF sc.raised \/ sc.base = <<>> THEN Raise({})
          ELSE IF sc.nproc = <<>> THEN Raise(Outputs("parse"))
          ELSE Proceed("parse")
    /\ UNCHANGED <<nonPipeVars, cmds, combineArgs, vtkLine>>

\* the NPROC lines enumerated: indented or not, with or without blanks
\* around "=", with or without a value, with or without an inline remainder
NprocLines ==
    {lead \o KeyNPROC \o sep \o val \o rest \o <<NL>> :
        lead \in {<<>>, <<SP>>},
        sep \in {<<"=">>, <<SP, "=", SP>>},
        val \in {<<>>, <<"4">>},
        rest \in {<<>>, <<SP, "#", SP, "c">>, <<SP, "!", "c">>}}

\* another key that begins with the same letters
OtherKeyLine == KeyNPROC \o <<"_", "X", "I", SP, "=", SP, "8", NL>>
LocalPathLine == KeyLOCAL_PATH \o <<SP, "=", SP, "D", NL>>

\* the contents of DATA/Par_file enumerated
HandoffFiles ==
    {nl \o other \o lp :
        nl \in NprocLines, other \in {<<>>, OtherKeyLine}, lp \in {<<>>, LocalPathLine}}

\* the run has reached the patch: the five statements before it are done
HandoffInit ==
    /\ pc = "par"
    /\ started = SubSeq(Script, 1, 5)
    /\ files = UNION {Outputs(Script[k]) : k \in 1..5}
    /\ cmds = <<>>
    /\ faultAt = 0
    /\ filesAtFault = {}
    /\ NPROC = 0
    /\ combineArgs = [start |-> 0, stop |-> 1, step |-> 1]
    /\ vtkLine = 0
    /\ parFile \in HandoffFiles
    /\ modifications \in {KeyNPROC :> IntVal(n) : n \in 1..MaxNproc}
    /\ readLines = <<>>
    /\ lines = <<>>
    /\ parPrev = <<>>
    /\ parRuns = 0
    /\ parRaised = FALSE
    /\ parWrote = FALSE
    /\ parLog = <<>>

-----------------------------------------------------------------------------
(* Successive runs of Workflow.py in one working directory: zoom_stl saves *)
(* model/<name>_zoom<scale_factor>.stl, generate_mesh looks the surface up *)
(* again by a file pattern.  A scaled surface file is named, and           *)
(* identified here, by its scale factor.                                   *)

\* number of runs made one after the other
MaxWorkflowRuns == 3

\* the scale factors a run can be given
ScaleFactors == 1..MaxScale

\* glob.glob(os.path.join(model_directory, '*zoom*.stl')): the matching
\* files; the input surface (Phobos.stl) does not match
stl_files == modelDir

\* zoom_stl: new_stl_file is written (an earlier file of the same name is
\* replaced, files of other names stay)
ZoomSavesSurface ==
    /\ meshPc = "zoom"
    /\ modelDir' = modelDir \cup {wfScaleFactor}
    /\ meshPc' = "mesh"
    /\ UNCHANGED <<meshRun, wfScaleFactor, meshStlFile, tomoBoxOf, nonMeshVars>>

\* generate_mesh: find_zoom_stl_file returns stl_files[0], and the order of
\* glob's list is the order in which the directory happens to list its
\* entries: any match can be first.  Then the mesh generator's modules are
\* imported, which ends the run when they are missing, and the file is
\* passed to `import stl`.
GenerateMeshFromFile ==
    /\ meshPc = "mesh"
    /\ IF stl_files = {}
       THEN meshPc' = "end" /\ UNCHANGED meshStlFile
       ELSE \E first \in stl_files :
               \/ meshPc' = "tomo" /\ meshStlFile' = <<first>>
               \/ meshPc' = "end" /\ UNCHANGED meshStlFile
    /\ UNCHANGED <<modelDir, meshRun, wfScaleFactor, tomoBoxOf, nonMeshVars>>

\* create_tomography_model(length2, width2, height2, ...): the padded box
\* that zoom_stl returned in this run
SizeVolumetricModel ==
    /\ meshPc = "tomo"
    /\ tomoBoxOf' = <<wfScaleFactor>>
    /\ meshPc' = "end"
    /\ UNCHANGED <<modelDir, meshRun, wfScaleFactor, meshStlFile, nonMeshVars>>

\* Workflow.py is started again, with a scale_factor of the user's choice
StartNextRun ==
    /\ meshPc = "end"
    /\ meshRun < MaxWorkflowRuns
    /\ meshRun' = meshRun + 1
    /\ wfScaleFactor' \in ScaleFactors
    /\ meshStlFile' = <<>>
    /\ tomoBoxOf' = <<>>
    /\ meshPc' = "zoom"
    /\ UNCHANGED <<modelDir, nonMeshVars>>

\* the first run in a fresh working directory
MeshInit ==
    /\ modelDir = {}
    /\ meshRun = 1
    /\ meshPc = "zoom"
    /\ wfScaleFactor \in ScaleFactors
    /\ meshStlFile = <<>>
    /\ tomoBoxOf = <<>>

MeshIdle ==
    /\ modelDir = {}
    /\ meshRun = 0
    /\ meshPc = "idle"
    /\ wfScaleFactor = 1
    /\ meshStlFile = <<>>
    /\ tomoBoxOf = <<>>

-----------------------------------------------------------------------------
(* Specifications.                                                         *)

\* modify_par_file called MaxRuns times on an enumerated Par_file
Init == ParInit /\ FmtIdle /\ PipeIdle /\ TomoIdle /\ StaIdle /\ ZoomIdle /\ ConcIdle
    /\ MeshIdle
Next == ModifyParFile
Spec == Init /\ [][Next]_vars

\* format_value called on an enumerated value
FmtSpecInit == FmtInit /\ ParIdle /\ PipeIdle /\ TomoIdle /\ StaIdle /\ ZoomIdle /\ ConcIdle
    /\ MeshIdle
FmtSpecNext == FormatValue
FmtSpec == FmtSpecInit /\ [][FmtSpecNext]_vars

\* one run of Workflow.py
PipelineInit == PipeInit /\ ParIdle /\ FmtIdle /\ TomoIdle /\ StaIdle /\ ZoomIdle /\ ConcIdle
    /\ MeshIdle
PipelineNext ==
    \/ ZoomStl
    \/ GenerateMesh
    \/ BuildTomography
    \/ WriteSource
    \/ WriteStation
    \/ PatchParFile
    \/ SetupExample
    \/ ParseParFile
    \/ DecomposeMesh
    \/ GenerateDatabases
    \/ RunSolver
    \/ CombineVtk
    \/ CombineStep
    \/ PlotWave
PipelineSpec == PipelineInit /\ [][PipelineNext]_vars

\* create_tomography_model called on enumerated arguments
TomoSpecInit == TomoInit /\ ParIdle /\ FmtIdle /\ PipeIdle /\ StaIdle /\ ZoomIdle /\ ConcIdle
    /\ MeshIdle
TomoSpecNext == CreateTomographyModel
TomoSpec == TomoSpecInit /\ [][TomoSpecNext]_vars

\* write_station called with an enumerated ntr, then the solver and the plot
StationSpecInit == StaInit /\ ParIdle /\ FmtIdle /\ PipeIdle /\ TomoIdle /\ ZoomIdle /\ ConcIdle
    /\ MeshIdle
StationSpecNext ==
    \/ WriteStationFile
    \/ SolverWritesTraces
    \/ PlotLoadTrace
    \/ PlotLoadSingle
StationSpec == StationSpecInit /\ [][StationSpecNext]_vars

\* zoom_stl called on an enumerated surface and scale factor
ZoomSpecInit ==
    ZoomInit /\ ParIdle /\ FmtIdle /\ PipeIdle /\ TomoIdle /\ StaIdle /\ ConcIdle /\ MeshIdle
ZoomSpecNext == ZoomStlCall
ZoomSpec == ZoomSpecInit /\ [][ZoomSpecNext]_vars

\* two runs of Workflow.py in one working directory
ConcSpecInit ==
    ConcInit /\ ParIdle /\ FmtIdle /\ PipeIdle /\ TomoIdle /\ StaIdle /\ ZoomIdle /\ MeshIdle
ConcSpecNext ==
    \/ \E r \in Runs : OpenForWrite(r)
    \/ \E r \in Runs : CloseAfterWrite(r)
    \/ \E r \in Runs : ParReadLines(r)
    \/ \E r \in Runs : ParWriteLines(r)
    \/ \E r \in Runs : ClearOutput(r)
    \/ \E r \in Runs : CopyConfig(r)
    \/ \E r \in Runs : ParseConfig(r)
    \/ \E r \in Runs : BuildDatabases(r)
    \/ \E r \in Runs : Solve(r)
    \/ \E r \in Runs : CombineOutputs(r)
ConcSpec == ConcSpecInit /\ [][ConcSpecNext]_vars

\* the patch and forward.main in one run, on an enumerated Par_file
HandoffSpecInit == HandoffInit /\ FmtIdle /\ TomoIdle /\ StaIdle /\ ZoomIdle /\ ConcIdle
    /\ MeshIdle
HandoffSpecNext ==
    \/ ModifyParFileInRun
    \/ SetupExample
    \/ MainScanParFile
    \/ DecomposeMesh
    \/ GenerateDatabases
    \/ RunSolver
    \/ CombineVtk
    \/ CombineStep
    \/ PlotWave
HandoffSpec == HandoffSpecInit /\ [][HandoffSpecNext]_vars

\* Workflow.py run MaxWorkflowRuns times in one working directory
MeshSpecInit ==
    MeshInit /\ ParIdle /\ FmtIdle /\ PipeIdle /\ TomoIdle /\ StaIdle /\ ZoomIdle /\ ConcIdle
MeshSpecNext ==
    \/ ZoomSavesSurface
    \/ GenerateMeshFromFile
    \/ SizeVolumetricModel
    \/ StartNextRun
MeshSpec == MeshSpecInit /\ [][MeshSpecNext]_vars

-----------------------------------------------------------------------------
(* Properties of modify_par_file, checked under Spec.                      *)

\* the value token of group 3: its leading run of non-blanks
ValueToken(g3) == SubSeq(g3, 1, RunLen(g3, 1, FALSE))
\* the inline remainder of group 3: what follows the value token
InlineRest(g3) == SubSeq(g3, RunLen(g3, 1, FALSE) + 1, Len(g3))
\* a line without its terminating newline
Chomp(line) ==
    IF line # <<>> /\ line[Len(line)] = NL THEN SubSeq(line, 1, Len(line) - 1)
    ELSE line
\* the rendered new value of a requested line
NewValue(line) == format_value(modifications[Strip(Match(line).g1)])
\* the last call ran to its end
ParDone == parRuns >= 1 /\ parWrote

(* C1: a requested line <key> = <value><inline remainder>, the remainder   *)
(* holding a comment, has only its value token replaced: the rewritten     *)
(* line is the key, the separator, the new value padded to the old token's *)
(* width, then the original remainder, and it keeps its width when the new *)
(* value is not longer than the old.                                       *)
C1_InlineRemainderKept ==
    ParDone =>
        \A i \in 1..Len(readLines) :
            LET L == readLines[i] IN
            (/\ Requested(L, modifications)
             /\ ValueToken(Match(L).g3) # <<>>
             /\ \E k \in 1..Len(InlineRest(Match(L).g3)) :
                   ~IsSpace(InlineRest(Match(L).g3)[k])) =>
                LET mt  == Match(L)
                    v   == NewValue(L)
                    tok == ValueToken(mt.g3)
                    pad == IF Len(v) < Len(tok) THEN Spaces(Len(tok) - Len(v)) ELSE <<>>
                IN  /\ Chomp(lines[i]) = mt.g1 \o mt.g2 \o v \o pad \o InlineRest(mt.g3)
                    /\ Len(v) <= Len(tok) => Len(Chomp(lines[i])) = Len(Chomp(L))

(* C2: a second call with the same modifications leaves the file as the    *)
(* first call left it.                                                     *)
C2_Idempotent == parRuns >= 2 => parFile = parPrev

(* C3: every line that does not match, or whose key is not requested, is   *)
(* in the written file byte for byte and at the same line position.        *)
C3_FrameSamePosition ==
    ParDone =>
        LET out == ReadLines(parFile) IN
        \A i \in 1..Len(readLines) :
            ~Requested(readLines[i], modifications) =>
                i <= Len(out) /\ out[i] = readLines[i]

(* C4: a rewritten line keeps the text through the "=" and the blanks      *)
(* around it, carries the whole new value right after it, and is padded    *)
(* with blanks to the width of the original value segment when the new     *)
(* value is shorter.                                                       *)
C4_EqualsColumnKept ==
    ParDone =>
        \A i \in 1..Len(readLines) :
            LET L == readLines[i]
                R == lines[i]
            IN  Requested(L, modifications) =>
                LET mt  == Match(L)
                    pre == Len(mt.g1) + Len(mt.g2)
                    v   == NewValue(L)
                    old == Len(mt.g3)
                    eq  == Len(mt.g1) + RunLen(L, Len(mt.g1) + 1, TRUE) + 1
                IN  /\ L[eq] = "=" /\ R[eq] = "="
                    /\ Len(R) >= pre + Len(v) + 1
                    /\ SubSeq(R, 1, pre) = SubSeq(L, 1, pre)
                    /\ SubSeq(R, pre + 1, pre + Len(v)) = v
                    /\ R[Len(R)] = NL
                    /\ Len(v) < old =>
                          /\ Len(R) = pre + old + 1
                          /\ \A j \in (pre + Len(v) + 1)..(pre + old) : R[j] = SP
                    /\ Len(v) >= old => Len(R) = pre + Len(v) + 1

\* a call rewrote a line whose new value is shorter than the old segment
C4_Witness ==
    /\ ParDone
    /\ \E i \in 1..Len(readLines) :
          /\ Requested(readLines[i], modifications)
          /\ Len(NewValue(readLines[i])) < Len(Match(readLines[i]).g3)
          /\ lines[i] # readLines[i]

\* the requested lines whose value does not render
RaisingLines ==
    {i \in 1..Len(readLines) :
        /\ Requested(readLines[i], modifications)
        /\ FormatRaises(modifications[Strip(Match(readLines[i]).g1)])}

(* C5: when the value of a requested line does not render, that line is    *)
(* left as it was and the error is logged, every other requested line is   *)
(* rewritten, and the file is written back.                                *)
C5_PartialSuccess ==
    (parRuns >= 1 /\ RaisingLines # {}) =>
        /\ parWrote
        /\ parLog # <<>>
        /\ parFile = WriteLines(lines)
        /\ \A i \in 1..Len(readLines) :
              IF i \in RaisingLines THEN lines[i] = readLines[i]
              ELSE lines[i] = RewriteLine(readLines[i], modifications)

-----------------------------------------------------------------------------
(* Properties of format_value, checked under FmtSpec.                      *)

IsDigitChar(c) == \E d \in 0..9 : c = Digit(d)
Unsigned(s) == IF s # <<>> /\ s[1] = "-" THEN Tail(s) ELSE s

\* a plain decimal literal: digits after an optional sign
IsIntLiteral(s) ==
    LET u == Unsigned(s) IN u # <<>> /\ \A k \in 1..Len(u) : IsDigitChar(u[k])

\* d.de+XX or d.de-XX after an optional sign
IsSci(s) ==
    LET u == Unsigned(s) IN
    /\ Len(u) >= 7
    /\ IsDigitChar(u[1]) /\ u[2] = "." /\ IsDigitChar(u[3]) /\ u[4] = "e"
    /\ u[5] \in {"+", "-"}
    /\ \A k \in 6..Len(u) : IsDigitChar(u[k])

\* fixed notation without trailing zeros of the fraction or a trailing point
IsFixedStripped(s) ==
    LET u    == Unsigned(s)
        dots == {k \in 1..Len(u) : u[k] = "."}
    IN  /\ u # <<>>
        /\ \A k \in 1..Len(u) : IsDigitChar(u[k]) \/ u[k] = "."
        /\ Cardinality(dots) <= 1
        /\ dots # {} => (u[1] # "." /\ u[Len(u)] \notin {".", "0"})

\* the number of fractional digits of the decimal literal d1.d2 x 10^e
FracDigits(f) ==
    LET low == IF f.d2 # 0 THEN f.e - 1 ELSE f.e IN
    IF f.d1 = 0 \/ low >= 0 THEN 0 ELSE 0 - low

(* C6: a bool renders as .true. or .false., an int as its decimal literal, *)
(* a float of more than 3 fractional digits in scientific notation with a  *)
(* one-digit mantissa, a float of at most 3 fractional digits in fixed     *)
(* notation with trailing zeros and point stripped.                        *)
C6_FormatByType ==
    fmtState = "done" =>
        /\ fmtIn.t = "bool" =>
              fmtOut = IF fmtIn.b THEN <<".", "t", "r", "u", "e", ".">>
                       ELSE <<".", "f", "a", "l", "s", "e", ".">>
        /\ fmtIn.t = "int" =>
              /\ IsIntLiteral(fmtOut)
              /\ fmtIn.i = 8000 => fmtOut = <<"8", "0", "0", "0">>
        /\ (fmtIn.t = "float" /\ FracDigits(fmtIn) > 3) => IsSci(fmtOut)
        /\ (fmtIn.t = "float" /\ FracDigits(fmtIn) <= 3) => IsFixedStripped(fmtOut)

-----------------------------------------------------------------------------
(* Properties of the driver, checked under PipelineSpec.                   *)

IsPrefix(a, b) == Len(a) <= Len(b) /\ a = SubSeq(b, 1, Len(a))

\* the pipeline stage a statement belongs to ("glue": none of them)
StageName(st) ==
    CASE st = "zoom"      -> "Normalize"
      [] st = "mesh"      -> "Mesh"
      [] st = "tomo"      -> "BuildModel"
      [] st \in {"source", "station"} -> "LayoutObservation"
      [] st = "par"       -> "PatchParameters"
      [] st = "decompose" -> "Decompose"
      [] st = "gendb"     -> "GenerateDatabases"
      [] st = "solver"    -> "Solve"
      [] st = "combine"   -> "CombineOutputs"
      [] OTHER            -> "glue"

\* the stages of a sequence of statements, each named once as it starts
RECURSIVE StagesOf(_)
StagesOf(tr) ==
    IF tr = <<>> THEN <<>>
    ELSE LET rest == StagesOf(SubSeq(tr, 1, Len(tr) - 1))
             n    == StageName(tr[Len(tr)])
         IN  IF n = "glue" \/ (rest # <<>> /\ rest[Len(rest)] = n) THEN rest
             ELSE Append(rest, n)

PreMeshInputs ==
    {"DATA/tomo_files/tomography_model.xyz", "DATA/CMTSOLUTION", "DATA/STATIONS",
     "DATA/Par_file"}

C8_HaltOnFailure ==
    /\ \A i \in 1..Len(cmds) : cmds[i].rc # 0 => (i = Len(cmds) /\ pc = "halted")
    /\ faultAt # 0 =>
          /\ pc = "halted"
          /\ Len(started) = faultAt
          /\ filesAtFault \subseteq files

\* a combine command failed after one that succeeded
C8_Witness ==
    /\ pc = "halted"
    /\ Len(cmds) >= 5
    /\ cmds[Len(cmds)].rc # 0
    /\ cmds[Len(cmds)].cmd = "xcombine_vol_data_vtk"
    /\ cmds[Len(cmds) - 1].cmd = "xcombine_vol_data_vtk"
    /\ "DATA/Par_file" \in files

-----------------------------------------------------------------------------
(* Properties of create_tomography_model, checked under TomoSpec.          *)

TomoPositive ==
    /\ tomoArgs.length > 0 /\ tomoArgs.width > 0 /\ tomoArgs.height > 0
    /\ tomoArgs.mesh_size > 0

\* n is the ceiling of dim / spacing: the least n with n * spacing >= dim
IsCeil(n, dim, spacing) == n * spacing >= dim /\ (n - 1) * spacing < dim

(* C9: for positive dimensions and spacing the third header line holds     *)
(* nx, ny, nz = ceil(dim / spacing) per axis and exactly nx * ny * nz data *)
(* lines follow the four header lines; dimensions equal to the spacing     *)
(* give 1, 1, 1 and one data line.                                         *)
C9_CountsAgreeWithLines ==
    (tomoState = "done" /\ TomoPositive) =>
        LET n == tomoFile[3] IN
        /\ Len(n) = 3
        /\ IsCeil(n[1], tomoArgs.length, tomoArgs.mesh_size)
        /\ IsCeil(n[2], tomoArgs.width, tomoArgs.mesh_size)
        /\ IsCeil(n[3], tomoArgs.height, tomoArgs.mesh_size)
        /\ Len(tomoFile) = 4 + n[1] * n[2] * n[3]
        /\ \A m \in 5..Len(tomoFile) : Len(tomoFile[m]) = 6
        /\ (/\ tomoArgs.length = tomoArgs.mesh_size
            /\ tomoArgs.width = tomoArgs.mesh_size
            /\ tomoArgs.height = tomoArgs.mesh_size) =>
                (n = <<1, 1, 1>> /\ Len(tomoFile) = 5)

\* the model for length = width = height = spacing = 40 is written
C9_Witness ==
    /\ tomoState = "done"
    /\ tomoArgs.length = 40 /\ tomoArgs.width = 40 /\ tomoArgs.height = 40
    /\ tomoArgs.mesh_size = 40
    /\ Len(tomoFile) = 5

(* C10: the data line at index k*ny*nx + j*nx + i (from 0) holds the point *)
(* (origin_x + i*spacing, origin_y + j*spacing, origin_z + k*spacing),     *)
(* origin = (-length/2, -width/2, -height/2).                              *)
C10_ZOuterXInner ==
    (tomoState = "done" /\ TomoPositive) =>
        LET n == tomoFile[3]
            s == tomoArgs.mesh_size
        IN  \A i \in 0..(n[1] - 1) : \A j \in 0..(n[2] - 1) : \A k \in 0..(n[3] - 1) :
                LET ln == tomoFile[4 + k * n[2] * n[1] + j * n[1] + i + 1] IN
                /\ ln[1] = (0 - tomoArgs.length) + 2 * i * s
                /\ ln[2] = (0 - tomoArgs.width) + 2 * j * s
                /\ ln[3] = (0 - tomoArgs.height) + 2 * k * s

\* a model with more than one sample on every axis, and differing counts
C10_Witness ==
    /\ tomoState = "done" /\ TomoPositive
    /\ tomoFile[3][1] >= 2 /\ tomoFile[3][2] >= 2 /\ tomoFile[3][3] >= 2
    /\ tomoFile[3][1] # tomoFile[3][3]

(* C11: a spacing of zero or less is rejected: the call fails and no model  *)
(* file is written.                                                        *)
C11_RejectsNonPositiveSpacing ==
    (tomoState # "input" /\ tomoArgs.mesh_size <= 0) =>
        (tomoState = "raised" /\ tomoFile = <<>>)

\* the dimensions are not negative and the spacing is positive
TomoGrid ==
    /\ tomoArgs.length >= 0 /\ tomoArgs.width >= 0 /\ tomoArgs.height >= 0
    /\ tomoArgs.mesh_size > 0

\* the dimension of axis m (1: length, 2: width, 3: height)
TomoDim(m) ==
    CASE m = 1 -> tomoArgs.length [] m = 2 -> tomoArgs.width [] m = 3 -> tomoArgs.height

(* C12 as stated: on an axis whose dimension is smaller than the spacing   *)
(* the count is 0, and the file written is the header with no data line.   *)
C12_SmallDimensionCountsZero ==
    (tomoState = "done" /\ TomoGrid) =>
        \A m \in 1..3 :
            TomoDim(m) < tomoArgs.mesh_size =>
                (tomoFile[3][m] = 0 /\ Len(tomoFile) = 4)

(* C12 amended: on an axis whose dimension is positive and smaller than    *)
(* the spacing the count is 1; a count is 0 exactly when the dimension is  *)
(* 0, and then the file written is the header with no data line and the    *)
(* call returns normally; with three positive dimensions there is at least *)
(* one data line.                                                          *)
C12_SmallDimensionCountsOne ==
    (tomoState # "input" /\ TomoGrid) =>
        /\ tomoState = "done"
        /\ \A m \in 1..3 :
              /\ (0 < TomoDim(m) /\ TomoDim(m) < tomoArgs.mesh_size) =>
                    tomoFile[3][m] = 1
              /\ tomoFile[3][m] = 0 <=> TomoDim(m) = 0
        /\ (\E m \in 1..3 : tomoFile[3][m] = 0) => Len(tomoFile) = 4
        /\ (\A m \in 1..3 : TomoDim(m) > 0) => Len(tomoFile) > 4

\* a model whose length is positive and below the spacing, with data lines
C12_Witness ==
    /\ tomoState = "done" /\ TomoGrid
    /\ 0 < tomoArgs.length /\ tomoArgs.length < tomoArgs.mesh_size
    /\ tomoArgs.width > 0 /\ tomoArgs.height > 0
    /\ tomoFile[3][1] = 1
    /\ Len(tomoFile) > 4

(* C13: every data line has vp = vp_min + gradient * z, vs = vs_min +       *)
(* gradient * z and rho as passed, whether or not that lies within         *)
(* [vp_min, vp_max] and [vs_min, vs_max]; with gradient = 0 every line has *)
(* vp = vp_min and vs = vs_min.  (x, y, z, vp and vs are stored doubled.)  *)
C13_LinearUnclamped ==
    tomoState = "done" =>
        \A m \in 5..Len(tomoFile) :
            LET ln == tomoFile[m] IN
            /\ ln[4] = 2 * tomoArgs.vp_min + tomoArgs.gradient * ln[3]
            /\ ln[5] = 2 * tomoArgs.vs_min + tomoArgs.gradient * ln[3]
            /\ ln[6] = tomoArgs.rho
            /\ tomoArgs.gradient = 0 =>
                  (ln[4] = 2 * tomoArgs.vp_min /\ ln[5] = 2 * tomoArgs.vs_min)

\* a model with a line above vp_max and vs_max and a line below vp_min and
\* vs_min
C13_Witness ==
    /\ tomoState = "done"
    /\ \E m \in 5..Len(tomoFile) :
          /\ tomoFile[m][4] > 2 * tomoArgs.vp_max
          /\ tomoFile[m][5] > 2 * tomoArgs.vs_max
    /\ \E m \in 5..Len(tomoFile) :
          /\ tomoFile[m][4] < 2 * tomoArgs.vp_min
          /\ tomoFile[m][5] < 2 * tomoArgs.vs_min

-----------------------------------------------------------------------------
(* Properties of write_station and plot_seismic_waveform, checked under    *)
(* StationSpec.                                                            *)

\* line i (from 0) of ./DATA/STATIONS is named X{i+1} and carries the code
\* whose letters are 'A' + i // 26 and 'A' + i % 26
NamedByOrdinal(i) ==
    /\ staFile[i + 1].name = <<"X">> \o NatToStr(i + 1)
    /\ staFile[i + 1].code = <<Letters[(i \div 26) + 1], Letters[(i % 26) + 1]>>

(* C14: write_station(R, ntr) writes exactly ntr lines, line i named and   *)
(* coded by its ordinal, the (name, code) pairs pairwise distinct; R = 800 *)
(* and ntr = 72 give 72 lines.                                             *)
C14_LinesByOrdinal ==
    staState \notin {"idle", "input"} =>
        /\ staState = "done"
        /\ Len(staFile) = staArgs.ntr
        /\ \A i \in 0..(staArgs.ntr - 1) : NamedByOrdinal(i)
        /\ \A i, j \in 1..Len(staFile) :
              (staFile[i].name = staFile[j].name /\ staFile[i].code = staFile[j].code)
                  => i = j
        /\ (staArgs.R = 800 /\ staArgs.ntr = 72) => Len(staFile) = 72

(* C15: for every count the call succeeds and places ordinal i at the      *)
(* angle i * 5 degrees; beyond 73 stations an angle repeats that of an     *)
(* earlier station.                                                        *)
C15_FixedStepAnyCount ==
    staState \notin {"idle", "input"} =>
        /\ staState = "done"
        /\ Len(staFile) = staArgs.ntr
        /\ \A i \in 0..(staArgs.ntr - 1) : staFile[i + 1].phi = i * 5
        /\ staArgs.ntr > 73 =>
              \E i \in 1..Len(staFile) : \E j \in 1..(i - 1) :
                  staFile[i].phi % 360 = staFile[j].phi % 360

(* C16: the file name plot_seismic_waveform opens for index i < 72 is the   *)
(* trace name <code>.<name>.FXZ.semd of the line write_station wrote for   *)
(* ordinal i, and with the default count each of AA.X1, AS.X19, BK.X37 and *)
(* CC.X55 is the trace name of a line of ./DATA/STATIONS, so that no load  *)
(* fails.                                                                  *)
C16_NamesAgree ==
    /\ \A n \in 1..Len(plotOpened) :
          (n <= PlotTraces /\ n <= Len(staFile)) =>
              plotOpened[n] = TraceName(staFile[n].code, staFile[n].name)
    /\ (staState = "done" /\ staArgs.ntr = DefaultNtr) =>
          /\ \A k \in 1..Len(SingleTraces) :
                \E n \in 1..Len(staFile) :
                    SingleTraces[k] = TraceName(staFile[n].code, staFile[n].name)
          /\ SingleTraces[2] = TraceName(staFile[19].code, staFile[19].name)
          /\ SingleTraces[3] = TraceName(staFile[37].code, staFile[37].name)
          /\ SingleTraces[4] = TraceName(staFile[55].code, staFile[55].name)
          /\ plotState # "raised"

\* the plot of a run with the default 72 stations has loaded the 72 traces
\* and the four single ones
C16_Witness ==
    /\ plotState = "done"
    /\ staArgs.ntr = DefaultNtr
    /\ Len(plotOpened) = PlotTraces + Len(SingleTraces)
    /\ \A n \in 1..Len(plotOpened) : plotOpened[n] \in traces

-----------------------------------------------------------------------------
(* Properties of zoom.py, checked under ZoomSpec.                          *)

\* p is the extent whose double is d2, padded: the multiple of 10 with
\* 1.2 * d <= p < 1.2 * d + 10
IsPadded(p, d2) ==
    /\ p % 10 = 0
    /\ 10 * p >= 6 * d2
    /\ 10 * p < 6 * d2 + 100

\* r is what calc_dims returns for the vertices vs
DimsOf(r, vs) ==
    /\ \A m \in 1..3 :
          /\ \A n \in 1..Len(vs) :
                r.min_coords[m] <= vs[n][m] /\ vs[n][m] <= r.max_coords[m]
          /\ \E n \in 1..Len(vs) : r.min_coords[m] = vs[n][m]
          /\ \E n \in 1..Len(vs) : r.max_coords[m] = vs[n][m]
          /\ r.dimensions[m] = RoundF(r.max_coords[m] - r.min_coords[m])
    /\ r.length = r.width
    /\ \/ r.dimensions[1] >= r.dimensions[2] /\ IsPadded(r.length, r.dimensions[1])
       \/ r.dimensions[2] >= r.dimensions[1] /\ IsPadded(r.length, r.dimensions[2])
    /\ IsPadded(r.height, r.dimensions[3])

\* the largest magnitude of a scaled coordinate on axis m
ScaledMag(m) ==
    LET S == {Abs(RoundF(zoomArgs.surface[n][m] * zoomArgs.scale_factor)) :
                 n \in 1..Len(zoomArgs.surface)}
    IN  CHOOSE v \in S : \A w \in S : v >= w

\* min + max of the saved surface on axis m: twice the box centre
CentreOffset(m) == AxisMin(stlOut, m) + AxisMax(stlOut, m)

\* the extent of the saved surface on axis m less scale_factor times the
\* extent of the surface read, as calc_dims measures them
ExtentOffset(m) ==
    zoomRet[2].dimensions[m] - zoomArgs.scale_factor * zoomRet[1].dimensions[m]

\* no operation of scale_model and calc_dims rounds on axis m
NothingRounds(m) ==
    LET vs == zoomArgs.surface
        sc == [n \in 1..Len(vs) |-> vs[n][m] * zoomArgs.scale_factor]
        lo == CHOOSE v \in {sc[n] : n \in 1..Len(vs)} : \A n \in 1..Len(vs) : v <= sc[n]
        hi == CHOOSE v \in {sc[n] : n \in 1..Len(vs)} : \A n \in 1..Len(vs) : v >= sc[n]
    IN  /\ \A n \in 1..Len(vs) : RoundF(sc[n]) = sc[n]
        /\ RoundF(lo + hi) = lo + hi
        /\ (lo + hi) % 2 = 0
        /\ \A n \in 1..Len(vs) : RoundF(sc[n] - (lo + hi) \div 2) = sc[n] - (lo + hi) \div 2
        /\ RoundF(hi - lo) = hi - lo
        /\ RoundF(AxisMax(vs, m) - AxisMin(vs, m)) = AxisMax(vs, m) - AxisMin(vs, m)

(* C17 as stated: for a positive scale factor the saved surface has        *)
(* min = -max on every axis and extents equal to the scale factor times    *)
(* the original extents.                                                   *)
C17_CentredExactly ==
    (zoomState = "done" /\ zoomArgs.scale_factor > 0) =>
        \A m \in 1..3 : CentreOffset(m) = 0 /\ ExtentOffset(m) = 0

(* C17 amended: for a positive scale factor the box centre of the saved    *)
(* surface is the origin, and its extents are the scale factor times the   *)
(* original extents, up to the rounding of the floating-point operations:  *)
(* on every axis |min + max| <= 2 * eps * M and |extent - scale * original *)
(* extent| <= 4 * eps * M, with M the largest magnitude of a scaled        *)
(* coordinate on the axis and eps = 2^(1 - MantissaBits); both are 0 when  *)
(* no operation rounds.                                                    *)
C17_CentredWithinRounding ==
    (zoomState = "done" /\ zoomArgs.scale_factor > 0) =>
        \A m \in 1..3 :
            /\ 2 ^ (MantissaBits - 1) * Abs(CentreOffset(m)) <= 2 * ScaledMag(m)
            /\ 2 ^ (MantissaBits - 1) * Abs(ExtentOffset(m)) <= 4 * ScaledMag(m)
            /\ NothingRounds(m) => (CentreOffset(m) = 0 /\ ExtentOffset(m) = 0)

\* a surface enlarged, saved with a box that rounding left off the origin on
\* the x axis and exactly centred on the y axis
C17_Witness ==
    /\ zoomState = "done"
    /\ zoomArgs.scale_factor > 1
    /\ CentreOffset(1) # 0
    /\ ~NothingRounds(1)
    /\ NothingRounds(2)
    /\ AxisMax(stlOut, 2) > 0
    /\ CentreOffset(2) = 0

C19_RejectsNonPositiveScale ==
    (zoomState \notin {"idle", "input"} /\ zoomArgs.scale_factor <= 0) =>
        (zoomState = "raised" /\ stlOut = <<>> /\ stlDetails = <<>>)

-----------------------------------------------------------------------------
(* Properties of two runs in one working directory, checked under ConcSpec. *)

\* run r's solver has read file f as run o left it, o not r
ConsumedForeign(r, f) ==
    /\ consumed[r] # <<>>
    /\ consumed[r][f].by \notin {0, r}

(* C20: the two runs are not mutually excluded: whatever the other run is  *)
(* doing, a run that has a statement left can execute it, reading the      *)
(* shared files as they are; only a run whose solver ran before the other  *)
(* run's first statement is sure to have consumed its own DATA files.      *)
C20_NoMutualExclusion ==
    \A r \in Runs :
        /\ runPc[r] \notin {"done", "halted"} => ENABLED RunStep(r)
        /\ (consumed[r] # <<>> /\ runPc[r] = "combine" /\
            \A o \in Runs \ {r} : runPc[o] = ConcScript[1]) =>
                \A f \in DataFiles : consumed[r][f].by = r

\* run 1's solver has read a DATA/Par_file that run 2 had truncated and not
\* yet rewritten, and the DATA/STATIONS that run 2 wrote, after run 1 had
\* written both itself; run 1 then went on
C20_Witness ==
    /\ runPc[1] \in {"combine", "done"}
    /\ consumed[1] # <<>>
    /\ consumed[1]["DATA/Par_file"] = Written(2, "partial")
    /\ ConsumedForeign(1, "DATA/STATIONS")
    /\ consumed[1]["DATA/tomo_files/tomography_model.xyz"].by = 1


-----------------------------------------------------------------------------
(* Properties of the NPROC hand-off, checked under HandoffSpec.            *)

\* the n of the modification NPROC -> n
HandoffN == modifications[KeyNPROC].i
\* modify_par_file has rewritten an NPROC line of the file and written it back
NprocPatched ==
    /\ KeyNPROC \in DOMAIN modifications
    /\ parWrote
    /\ \E i \in 1..Len(readLines) : Requested(readLines[i], modifications)
\* forward.main has gone through its scan of a file that has a LOCAL_PATH line
ScanDone ==
    /\ \E k \in 1..Len(started) : started[k] = "parse"
    /\ \E i \in 1..Len(readLines) : StartsWith(readLines[i], KeyLOCAL_PATH)
\* the command lines of the three solver stages
StageCmds ==
    {"xdecompose_mesh", "xgenerate_databases", "mpirun xgenerate_databases",
     "xspecfem3D", "mpirun xspecfem3D"}

(* C21: once modify_par_file has applied NPROC -> n to a Par_file that has *)
(* an NPROC line, with or without inline content after the value,          *)
(* forward.main's scan of the file ends without error with NPROC = n, and  *)
(* every decompose, generate_databases and run_solver command is given     *)
(* that n, the last two through mpirun exactly when n # 1.                 *)
C21_HandoffYieldsN ==
    (NprocPatched /\ ScanDone) =>
        /\ ~(pc = "halted" /\ started[Len(started)] = "parse")
        /\ NPROC = HandoffN
        /\ \A k \in 1..Len(cmds) :
              cmds[k].cmd \in StageCmds =>
                  /\ cmds[k].np = HandoffN
                  /\ cmds[k].cmd \in {"mpirun xgenerate_databases", "mpirun xspecfem3D"}
                         => HandoffN # 1
                  /\ cmds[k].cmd \in {"xgenerate_databases", "xspecfem3D"}
                         => HandoffN = 1


-----------------------------------------------------------------------------
(* The line structure of Par_file, checked under Spec.                     *)

\* number of newline characters in s
RECURSIVE Newlines(_)
Newlines(s) ==
    IF s = <<>> THEN 0
    ELSE (IF Head(s) = NL THEN 1 ELSE 0) + Newlines(Tail(s))

(* C22: the file written has as many lines as the file read, and every     *)
(* rewritten key line is one line, ended by its only newline, with the new *)
(* value before that newline, key lines with an empty value included.      *)
C22_LineStructureKept ==
    ParDone =>
        /\ Len(ReadLines(parFile)) = Len(readLines)
        /\ \A i \in 1..Len(readLines) :
              Requested(readLines[i], modifications) =>
                  /\ Newlines(lines[i]) = 1
                  /\ lines[i][Len(lines[i])] = NL


-----------------------------------------------------------------------------
(* The surface given to the mesh generator, checked under MeshSpec.        *)

(* C23: in every run, runs after earlier runs with other scale factors     *)
(* included, the file generate_mesh imports is the scaled surface that     *)
(* zoom_stl wrote in the same run, the one whose padded box sizes the      *)
(* run's volumetric model.                                                 *)
C23_MeshImportsThisRunsSurface ==
    /\ meshStlFile # <<>> => meshStlFile = <<wfScaleFactor>>
    /\ (meshStlFile # <<>> /\ tomoBoxOf # <<>>) => meshStlFile = tomoBoxOf

=============================================================================
